---- MODULE Spec2Model ----
(***************************************************************************)
(* Time-Warped Edit Distance engines of the timeSeries repository:         *)
(*   memTWED   (src/TWED/memoryEfficient_TWED.py)  two-row rolling buffer  *)
(*   multiTWED (src/TWED/multiInput_TWED.py)       batched rolling buffer  *)
(*   TWED      (src/timeWarpedEditDistance_TWED.py) full n x m matrix      *)
(*                                                                         *)
(* Sample values, lambda and nu are integers (a fixed-point reading of the *)
(* floats of the code); +infinity is a tagged value that absorbs addition  *)
(* and is the top of the order, as numpy's inf is.  Python indices are     *)
(* 0-based: At(s, k) is s[k].                                              *)
(***************************************************************************)
EXTENDS Integers, Sequences, FiniteSets, TLC

\* ------------------------------------------------------------- bounds
MaxLen == 3
MaxVal == 1
MaxLam == 1
MaxNu == 1
MaxBatch == 2
MaxBatchCells == 6
MaxLifecycleCells == 4

Vals == 0..MaxVal
\* lambda has no sign check in any constructor: negative, zero, positive.
Lams == {0 - MaxLam, 0, MaxLam}
\* nu as the sweeps may see it, and the value the constructors reject.
Nus == {0, MaxNu}
BadNu == 0 - 1
NuInputs == Nus \cup {BadNu}

SeriesOfLen(k) == [1..k -> Vals]
Series == UNION {SeriesOfLen(k) : k \in 1..MaxLen}

\* ------------------------------------------------------------- numbers
Inf == [inf |-> TRUE, v |-> 0]
Fin(x) == [inf |-> FALSE, v |-> x]

\* float addition of a finite term to a cell: inf + x = inf
Plus(c, x) == IF c.inf THEN Inf ELSE Fin(c.v + x)

Less(a, b) == (~a.inf) /\ (b.inf \/ a.v < b.v)

Leq(a, b) == ~Less(b, a)

Abs(x) == IF x < 0 THEN 0 - x ELSE x

At(s, k) == s[k + 1]

\* min(_deleteA, _deleteB, _match)
min3(a, b, c) ==
  LET ab == IF Less(b, a) THEN b ELSE a
  IN  IF Less(c, ab) THEN c ELSE ab

\* ------------------------------------------------------------- recurrence
\* The three candidates of one cell, as the loops of the three engines
\* spell them.  prev_j = matrix[ai, j], cur_j1 = matrix[mi, j-1],
\* prev_j1 = matrix[ai, j-1]; d1, d2 are the two series.
\* mutant: the penalty of a deletion in the first series is subtracted
deleteA_rebate(prev_j, d1, i_, nu_, lam_) ==
  Plus(prev_j, Abs(At(d1, i_ - 1) - At(d1, i_)) + nu_ * (i_ - (i_ - 1)) - lam_)

deleteA(prev_j, d1, i_, nu_, lam_) ==
  Plus(prev_j, Abs(At(d1, i_ - 1) - At(d1, i_)) + nu_ * (i_ - (i_ - 1)) + lam_)

deleteB(cur_j1, d2, j_, nu_, lam_) ==
  Plus(cur_j1, Abs(At(d2, j_ - 1) - At(d2, j_)) + nu_ * (j_ - (j_ - 1)) + lam_)

\* mutant: the second value gap of a match reads t2_data[j] for t2_data[j-1]
match_indexSlip(prev_j1, d1, d2, i_, j_, nu_) ==
  Plus(prev_j1, Abs(At(d1, i_) - At(d2, j_)) + Abs(At(d1, i_ - 1) - At(d2, j_))
                + nu_ * (Abs(i_ - j_) + Abs((i_ - 1) - (j_ - 1))))

match(prev_j1, d1, d2, i_, j_, nu_) ==
  Plus(prev_j1, Abs(At(d1, i_) - At(d2, j_)) + Abs(At(d1, i_ - 1) - At(d2, j_ - 1))
                + nu_ * (Abs(i_ - j_) + Abs((i_ - 1) - (j_ - 1))))

\* mi = i % 2 ; ai = abs(mi - 1)
CurrentRow(i_) == i_ % 2

PreviousRow(mi_) == Abs(mi_ - 1)

\* ------------------------------------------------------------- state
VARIABLES
  engine,     \* which class is being exercised: "none", "mem", "multi", "twed"
  pc,         \* position: "new", "constructed", "inner", "else", "return",
              \* "done", or the exception that ended the call
  t1, t2,     \* self.t1, self.t2
  lam,        \* self._lambda
  nu,         \* the _nu argument of __init__ (self._nu once it is assigned)
  n, m,       \* self.n, self.m
  numSeries,  \* multiTWED.numSeries
  matrix,     \* the DP buffer of the running calculateCosts; NoMatrix before
  i, j,       \* loop variables of the sweep
  mi,         \* local mi of the sweep: <<>> while unassigned, <<row>> after
  result,     \* value returned by calculateCosts
  warned,     \* memTWED printed "Warning: n < m ..."
  cmp         \* outcomes collected by the comparison harnesses

vars == <<engine, pc, t1, t2, lam, nu, n, m, numSeries, matrix, i, j, mi, result, warned, cmp>>

NoMatrix == <<>>
NoResult == <<>>
NoCmp == <<>>

\* An index past the end of an axis: numpy raises IndexError; the numba-compiled
\* sweep of memTWED does no bounds check and its behaviour is undefined.
JitOutOfBounds == {"IndexError", "undefined"}
\* A local read before any assignment: UnboundLocalError in the interpreter,
\* an undefined value in the numba-compiled sweep.
JitUnbound == {"UnboundLocalError", "undefined"}

\* ------------------------------------------------------------- memTWED
\* assert _nu >= 0
mem_assert_nu(v) == v >= 0

\* mutant: matrix[0, 0] = 0 is assigned before the two fills, which overwrite it
mem_init_matrix_originFirst(n_) ==
  [r \in 0..1 |-> [c \in 0..(n_ - 1) |->
     IF r = 0 \/ c = 0 THEN Inf ELSE Fin(0)]]

\* matrix = np.zeros((2, self.n)); [0, :] = inf; [:, 0] = inf; [0, 0] = 0
mem_init_matrix(n_) ==
  [r \in 0..1 |-> [c \in 0..(n_ - 1) |->
     IF r = 0 /\ c = 0 THEN Fin(0)
     ELSE IF r = 0 \/ c = 0 THEN Inf
     ELSE Fin(0)]]

\* matrix.shape[1]
Width(mx) == Cardinality(DOMAIN mx[0])

\* body of the inner loop for cell (i, j): matrix[mi, j] = min(...)
mem_cell(mx, i_, j_, nu_, lam_, d1, d2) ==
  LET mi_ == CurrentRow(i_)
      ai_ == PreviousRow(mi_)
  IN  [mx EXCEPT ![mi_][j_] =
         min3(deleteA(mx[ai_][j_], d1, i_, nu_, lam_),
              deleteB(mx[mi_][j_ - 1], d2, j_, nu_, lam_),
              match(mx[ai_][j_ - 1], d1, d2, i_, j_, nu_))]

\* mutant: the for-else is dropped, cell (0, 0) keeps the origin's 0
mem_else_dropped(mx) == mx

\* the for-else of the inner loop: matrix[0, 0] = np.inf
mem_else(mx) == [mx EXCEPT ![0][0] = Inf]

\* The two loops of _calculateCosts from position (i, j) on; "oob" when a
\* column index leaves the buffer.
RECURSIVE mem_sweep(_, _, _, _, _, _, _, _, _)
mem_sweep(mx, i_, j_, n_, m_, nu_, lam_, d1, d2) ==
  IF i_ >= n_ THEN [st |-> "ok", mx |-> mx]
  ELSE IF j_ >= m_ THEN mem_sweep(mem_else(mx), i_ + 1, 1, n_, m_, nu_, lam_, d1, d2)
  ELSE IF j_ >= Width(mx) THEN [st |-> "oob", mx |-> mx]
  ELSE mem_sweep(mem_cell(mx, i_, j_, nu_, lam_, d1, d2), i_, j_ + 1, n_, m_, nu_, lam_, d1, d2)

Outcome(st, val) == [status |-> st, value |-> val]

\* calculateCosts of a constructed memTWED: the set of its possible
\* [status, value, mx]; a singleton unless the call has undefined behaviour.
mem_costs(d1, d2, n_, m_, lam_, nu_) ==
  LET sw == mem_sweep(mem_init_matrix(n_), 1, 1, n_, m_, nu_, lam_, d1, d2)
      fail(fs) == {[status |-> f, value |-> Inf, mx |-> sw.mx] : f \in fs}
  IN  IF sw.st = "oob" THEN fail(JitOutOfBounds)
      ELSE IF ~(1 < n_) THEN fail(JitUnbound)
      ELSE IF m_ - 1 >= Width(sw.mx) THEN fail(JitOutOfBounds)
      ELSE {[status |-> "ok", value |-> sw.mx[CurrentRow(n_ - 1)][m_ - 1], mx |-> sw.mx]}

\* memTWED(d1, d2, lam_, nu_).calculateCosts(), constructor included
\* (failOnDifferingLengths left at its default, False)
memTWED_costs(d1, d2, lam_, nu_) ==
  IF ~mem_assert_nu(nu_) THEN {Outcome("AssertionError", Inf)}
  ELSE {Outcome(o.status, o.value) : o \in mem_costs(d1, d2, Len(d1), Len(d2), lam_, nu_)}

\* memTWED.__init__
memTWED_init ==
  /\ pc = "new"
  /\ \E a \in Series, b \in Series, l \in Lams, v \in NuInputs, strict \in BOOLEAN :
       /\ engine' = "mem"
       /\ nu' = v
       /\ IF ~mem_assert_nu(v)
          THEN /\ pc' = "AssertionError"
               /\ UNCHANGED <<t1, t2, lam, n, m, warned>>
          ELSE /\ n' = Len(a) /\ m' = Len(b)
               /\ IF strict /\ Len(a) # Len(b)
                  THEN pc' = "AssertionError" /\ UNCHANGED <<t1, t2, lam, warned>>
                  ELSE /\ pc' = "constructed"
                       /\ t1' = a /\ t2' = b /\ lam' = l
                       /\ warned' = ((~strict) /\ Len(a) < Len(b))
  /\ UNCHANGED <<numSeries, matrix, i, j, mi, result, cmp>>

\* The header of the outer loop, reached with the next value of i.
mem_outer(i_) ==
  IF i_ < n
  THEN /\ i' = i_
       /\ mi' = <<CurrentRow(i_)>>
       /\ j' = 1
       /\ pc' = IF 1 < m THEN "inner" ELSE "else"
  ELSE /\ pc' = "return"
       /\ UNCHANGED <<i, j, mi>>

\* calculateCosts: self._init_matrix(), then entry into _calculateCosts
mem_calculateCosts ==
  /\ pc = "constructed" /\ engine = "mem"
  /\ matrix' = mem_init_matrix(n)
  /\ mem_outer(1)
  /\ UNCHANGED <<engine, t1, t2, lam, nu, n, m, numSeries, result, warned, cmp>>

\* one pass of the inner loop body, cell (i, j)
mem_inner ==
  /\ pc = "inner" /\ engine = "mem"
  /\ IF j < Width(matrix)
     THEN /\ matrix' = mem_cell(matrix, i, j, nu, lam, t1, t2)
          /\ IF j + 1 < m
             THEN j' = j + 1 /\ pc' = "inner"
             ELSE j' = j /\ pc' = "else"
     ELSE /\ pc' \in JitOutOfBounds
          /\ UNCHANGED <<matrix, j>>
  /\ UNCHANGED <<engine, t1, t2, lam, nu, n, m, numSeries, i, mi, result, warned, cmp>>

\* the else clause of the inner loop, then the next outer iteration
mem_rowEnd ==
  /\ pc = "else" /\ engine = "mem"
  /\ matrix' = mem_else(matrix)
  /\ mem_outer(i + 1)
  /\ UNCHANGED <<engine, t1, t2, lam, nu, n, m, numSeries, result, warned, cmp>>

\* return matrix[mi, m-1]
mem_return ==
  /\ pc = "return" /\ engine = "mem"
  /\ IF mi = <<>>
     THEN pc' \in JitUnbound /\ UNCHANGED result
     ELSE IF m - 1 < Width(matrix)
     THEN pc' = "done" /\ result' = matrix[mi[1]][m - 1]
     ELSE pc' \in JitOutOfBounds /\ UNCHANGED result
  /\ UNCHANGED <<engine, t1, t2, lam, nu, n, m, numSeries, matrix, i, j, mi, warned, cmp>>

\* ------------------------------------------------------------- multiTWED
\* assert _nu >= 0
multi_assert_nu(v) == v >= 0

\* t2.shape of np.array(batch): (k, L) for a rectangular batch, (k,) for a
\* ragged one (an object array of k lists).
Shape(b) ==
  IF \A p \in 1..Len(b) : Len(b[p]) = Len(b[1])
  THEN <<Len(b), Len(b[1])>>
  ELSE <<Len(b)>>

\* assert len(t2.shape) == 2   (the check of self.n == self.m is commented out)
multi_assert_shape(b) == Len(Shape(b)) = 2

\* matrix = np.zeros((numSeries, 2, n)); [:, 0, :] = inf; [:, :, 0] = inf; [:, 0, 0] = 0
multi_init_matrix(k_, n_) ==
  [p \in 0..(k_ - 1) |-> [r \in 0..1 |-> [c \in 0..(n_ - 1) |->
     IF r = 0 /\ c = 0 THEN Fin(0)
     ELSE IF r = 0 \/ c = 0 THEN Inf
     ELSE Fin(0)]]]

\* mutant: the batch axis is lost, every entry is compared with series 0
multi_cell_firstSeries(mx, i_, j_, nu_, lam_, d1, b) ==
  LET mi_ == CurrentRow(i_)
      ai_ == PreviousRow(mi_)
  IN  [p \in DOMAIN mx |->
         [mx[p] EXCEPT ![mi_][j_] =
            min3(deleteA(mx[p][ai_][j_], d1, i_, nu_, lam_),
                 deleteB(mx[p][mi_][j_ - 1], At(b, 0), j_, nu_, lam_),
                 match(mx[p][ai_][j_ - 1], d1, At(b, 0), i_, j_, nu_))]]

\* matrix[:, mi, j] = np.min(np.stack((_deleteA, _deleteB, _match), axis=1), axis=1)
multi_cell(mx, i_, j_, nu_, lam_, d1, b) ==
  LET mi_ == CurrentRow(i_)
      ai_ == PreviousRow(mi_)
  IN  [p \in DOMAIN mx |->
         [mx[p] EXCEPT ![mi_][j_] =
            min3(deleteA(mx[p][ai_][j_], d1, i_, nu_, lam_),
                 deleteB(mx[p][mi_][j_ - 1], At(b, p), j_, nu_, lam_),
                 match(mx[p][ai_][j_ - 1], d1, At(b, p), i_, j_, nu_))]]

\* matrix[:, 0, 0] = np.inf
multi_else(mx) == [p \in DOMAIN mx |-> [mx[p] EXCEPT ![0][0] = Inf]]

\* The two loops of calculateCosts from (i, j) on; t2_data[:, j] raises
\* IndexError once j reaches the length of the batch's series.
RECURSIVE multi_sweep(_, _, _, _, _, _, _, _, _)
multi_sweep(mx, i_, j_, n_, m_, nu_, lam_, d1, b) ==
  IF i_ >= n_ THEN [st |-> "ok", mx |-> mx]
  ELSE IF j_ >= m_ THEN multi_sweep(multi_else(mx), i_ + 1, 1, n_, m_, nu_, lam_, d1, b)
  ELSE IF j_ >= Shape(b)[2] THEN [st |-> "IndexError", mx |-> mx]
  ELSE multi_sweep(multi_cell(mx, i_, j_, nu_, lam_, d1, b), i_, j_ + 1, n_, m_, nu_, lam_, d1, b)

\* calculateCosts of a constructed multiTWED: [status, value, mx]
multi_costs(d1, b, n_, m_, k_, lam_, nu_) ==
  LET sw == multi_sweep(multi_init_matrix(k_, n_), 1, 1, n_, m_, nu_, lam_, d1, b)
  IN  IF sw.st # "ok" THEN [status |-> sw.st, value |-> <<>>, mx |-> sw.mx]
      ELSE IF ~(1 < n_) THEN [status |-> "UnboundLocalError", value |-> <<>>, mx |-> sw.mx]
      ELSE [status |-> "ok",
            value |-> [p \in 1..k_ |-> sw.mx[p - 1][CurrentRow(n_ - 1)][m_ - 1]],
            mx |-> sw.mx]

\* multiTWED(d1, b, lam_, nu_).calculateCosts(), constructor included
multiTWED_costs(d1, b, lam_, nu_) ==
  IF ~multi_assert_nu(nu_) \/ ~multi_assert_shape(b)
  THEN [status |-> "AssertionError", value |-> <<>>, mx |-> NoMatrix]
  ELSE multi_costs(d1, b, Len(d1), Len(d1), Len(b), lam_, nu_)

Rectangular(k, l) == [1..k -> SeriesOfLen(l)]

\* Batches the lifecycle specification constructs multiTWED with.
LifecycleBatches ==
  UNION {Rectangular(s[1], s[2]) :
           s \in {x \in (1..MaxBatch) \X (1..MaxLen) : x[1] * x[2] <= MaxLifecycleCells}}
  \cup {b \in [1..2 -> Series] :
          Len(b[1]) # Len(b[2]) /\ Len(b[1]) + Len(b[2]) <= MaxLifecycleCells}

\* multiTWED.__init__
multiTWED_init ==
  /\ pc = "new"
  /\ \E a \in Series, b \in LifecycleBatches, l \in Lams, v \in NuInputs :
       /\ engine' = "multi"
       /\ nu' = v
       /\ IF ~multi_assert_nu(v)
          THEN /\ pc' = "AssertionError"
               /\ UNCHANGED <<t1, t2, lam, n, m, numSeries>>
          ELSE /\ n' = Len(a) /\ m' = Len(a) /\ numSeries' = Len(b)
               /\ IF ~multi_assert_shape(b)
                  THEN pc' = "AssertionError" /\ UNCHANGED <<t1, t2, lam>>
                  ELSE pc' = "constructed" /\ t1' = a /\ t2' = b /\ lam' = l
  /\ UNCHANGED <<matrix, i, j, mi, result, warned, cmp>>

\* multiTWED.calculateCosts
multi_calculateCosts ==
  /\ pc = "constructed" /\ engine = "multi"
  /\ LET o == multi_costs(t1, t2, n, m, numSeries, lam, nu)
     IN  /\ matrix' = o.mx
         /\ pc' = IF o.status = "ok" THEN "done" ELSE o.status
         /\ result' = IF o.status = "ok" THEN o.value ELSE result
  /\ UNCHANGED <<engine, t1, t2, lam, nu, n, m, numSeries, i, j, mi, warned, cmp>>

\* mutant: the assertion on _nu is missing
twed_assert_nu_skipped(v) == TRUE

\* ------------------------------------------------------------- TWED
\* assert _nu >= 0
twed_assert_nu(v) == v >= 0

\* t1_time = np.arange(1, n + 1, 1): the time stamp at index k
Time(k) == k + 1

\* for i in range(len(matrix)): matrix[i][0] = inf; matrix[0][i] = inf
RECURSIVE twed_init_loop(_, _, _, _)
twed_init_loop(mx, k, n_, m_) ==
  IF k >= n_ THEN [st |-> "ok", mx |-> mx]
  ELSE IF k >= m_ THEN [st |-> "IndexError", mx |-> [mx EXCEPT ![k][0] = Inf]]
  ELSE twed_init_loop([mx EXCEPT ![k][0] = Inf, ![0][k] = Inf], k + 1, n_, m_)

\* TWED._init_matrix(n, m): np.zeros((n, m)), the loop, then matrix[0][0] = 0
twed_init_matrix(n_, m_) ==
  LET z == [r \in 0..(n_ - 1) |-> [c \in 0..(m_ - 1) |-> Fin(0)]]
      l == twed_init_loop(z, 0, n_, m_)
  IN  IF l.st = "ok" THEN [st |-> "ok", mx |-> [l.mx EXCEPT ![0][0] = Fin(0)]] ELSE l

twed_cell(mx, i_, j_, nu_, lam_, d1, d2) ==
  [mx EXCEPT ![i_][j_] =
     min3(Plus(mx[i_ - 1][j_],
               Abs(At(d1, i_ - 1) - At(d1, i_)) + nu_ * (Time(i_) - Time(i_ - 1)) + lam_),
          Plus(mx[i_][j_ - 1],
               Abs(At(d2, j_ - 1) - At(d2, j_)) + nu_ * (Time(j_) - Time(j_ - 1)) + lam_),
          Plus(mx[i_ - 1][j_ - 1],
               Abs(At(d1, i_) - At(d2, j_)) + Abs(At(d1, i_ - 1) - At(d2, j_ - 1))
               + nu_ * (Abs(Time(i_) - Time(j_)) + Abs(Time(i_ - 1) - Time(j_ - 1)))))]

RECURSIVE twed_sweep(_, _, _, _, _, _, _, _, _)
twed_sweep(mx, i_, j_, n_, m_, nu_, lam_, d1, d2) ==
  IF i_ >= n_ THEN mx
  ELSE IF j_ >= m_ THEN twed_sweep(mx, i_ + 1, 1, n_, m_, nu_, lam_, d1, d2)
  ELSE twed_sweep(twed_cell(mx, i_, j_, nu_, lam_, d1, d2), i_, j_ + 1, n_, m_, nu_, lam_, d1, d2)

\* calculateCosts of a constructed TWED: [status, value, mx]
twed_costs(d1, d2, n_, m_, lam_, nu_) ==
  LET ini == twed_init_matrix(n_, m_)
      mx == twed_sweep(ini.mx, 1, 1, n_, m_, nu_, lam_, d1, d2)
  IN  IF ini.st # "ok" THEN [status |-> ini.st, value |-> Inf, mx |-> ini.mx]
      ELSE [status |-> "ok", value |-> mx[n_ - 1][m_ - 1], mx |-> mx]

\* TWED(d1, d2, lam_, nu_).calculateCosts(), constructor included
TWED_costs(d1, d2, lam_, nu_) ==
  IF ~twed_assert_nu(nu_) THEN Outcome("AssertionError", Inf)
  ELSE LET o == twed_costs(d1, d2, Len(d1), Len(d2), lam_, nu_)
       IN  Outcome(o.status, o.value)

\* TWED.__init__
TWED_init ==
  /\ pc = "new"
  /\ \E a \in Series, b \in Series, l \in Lams, v \in NuInputs :
       /\ engine' = "twed"
       /\ nu' = v
       /\ IF ~twed_assert_nu(v)
          THEN /\ pc' = "AssertionError"
               /\ UNCHANGED <<t1, t2, lam, n, m>>
          ELSE /\ pc' = "constructed"
               /\ t1' = a /\ t2' = b /\ lam' = l /\ n' = Len(a) /\ m' = Len(b)
  /\ UNCHANGED <<numSeries, matrix, i, j, mi, result, warned, cmp>>

\* TWED.calculateCosts
TWED_calculateCosts ==
  /\ pc = "constructed" /\ engine = "twed"
  /\ LET o == twed_costs(t1, t2, n, m, lam, nu)
     IN  /\ matrix' = o.mx
         /\ pc' = IF o.status = "ok" THEN "done" ELSE o.status
         /\ result' = IF o.status = "ok" THEN o.value ELSE result
  /\ UNCHANGED <<engine, t1, t2, lam, nu, n, m, numSeries, i, j, mi, warned, cmp>>

\* memTWED.calculateCosts as one step (the lifecycle of the three engines)
memTWED_calculateCosts ==
  /\ pc = "constructed" /\ engine = "mem"
  /\ \E o \in mem_costs(t1, t2, n, m, lam, nu) :
       /\ matrix' = o.mx
       /\ pc' = IF o.status = "ok" THEN "done" ELSE o.status
       /\ result' = IF o.status = "ok" THEN o.value ELSE result
  /\ UNCHANGED <<engine, t1, t2, lam, nu, n, m, numSeries, i, j, mi, warned, cmp>>

\* ------------------------------------------------------------- specifications
Init ==
  /\ engine = "none" /\ pc = "new"
  /\ t1 = <<>> /\ t2 = <<>> /\ lam = 0 /\ nu = 0 /\ n = 0 /\ m = 0 /\ numSeries = 0
  /\ matrix = NoMatrix /\ i = 0 /\ j = 0 /\ mi = <<>>
  /\ result = NoResult /\ warned = FALSE /\ cmp = NoCmp

\* memTWED, its sweep taken cell by cell
Next ==
  \/ memTWED_init
  \/ mem_calculateCosts
  \/ mem_inner
  \/ mem_rowEnd
  \/ mem_return

Spec == Init /\ [][Next]_vars

\* the three engines, construction and calculateCosts
NextEngines ==
  \/ memTWED_init
  \/ memTWED_calculateCosts
  \/ multiTWED_init
  \/ multi_calculateCosts
  \/ TWED_init
  \/ TWED_calculateCosts

SpecEngines == Init /\ [][NextEngines]_vars

\* ------------------------------------------------------------- pairwise harness
\* One pair of series and one (lambda, nu); the engines are applied in turn:
\* memTWED(A, B), memTWED(B, A), TWED(A, B), memTWED(A, B, lambda2).
NoOutcome == Outcome("none", Inf)

InitPair ==
  /\ engine = "pair" /\ pc = "inputs"
  /\ t1 \in Series /\ t2 \in Series /\ lam \in Lams /\ nu \in Nus
  /\ n = Len(t1) /\ m = Len(t2) /\ numSeries = 0
  /\ matrix = NoMatrix /\ i = 0 /\ j = 0 /\ mi = <<>>
  /\ result = NoResult /\ warned = FALSE
  /\ cmp = [ab |-> NoOutcome, ba |-> NoOutcome, naive |-> NoOutcome,
            lam2 |-> lam, ab2 |-> NoOutcome]

PairMem ==
  /\ pc = "inputs" /\ engine = "pair"
  /\ \E o \in memTWED_costs(t1, t2, lam, nu) : cmp' = [cmp EXCEPT !.ab = o]
  /\ pc' = "ab"
  /\ UNCHANGED <<engine, t1, t2, lam, nu, n, m, numSeries, matrix, i, j, mi, result, warned>>

PairSwapped ==
  /\ pc = "ab" /\ engine = "pair"
  /\ \E o \in memTWED_costs(t2, t1, lam, nu) : cmp' = [cmp EXCEPT !.ba = o]
  /\ pc' = "ba"
  /\ UNCHANGED <<engine, t1, t2, lam, nu, n, m, numSeries, matrix, i, j, mi, result, warned>>

PairNaive ==
  /\ pc = "ba" /\ engine = "pair"
  /\ cmp' = [cmp EXCEPT !.naive = TWED_costs(t1, t2, lam, nu)]
  /\ pc' = "naive"
  /\ UNCHANGED <<engine, t1, t2, lam, nu, n, m, numSeries, matrix, i, j, mi, result, warned>>

PairLambda ==
  /\ pc = "naive" /\ engine = "pair"
  /\ \E l2 \in Lams :
       /\ lam <= l2
       /\ \E o \in memTWED_costs(t1, t2, l2, nu) :
            cmp' = [cmp EXCEPT !.lam2 = l2, !.ab2 = o]
  /\ pc' = "compared"
  /\ UNCHANGED <<engine, t1, t2, lam, nu, n, m, numSeries, matrix, i, j, mi, result, warned>>

NextPair == PairMem \/ PairSwapped \/ PairNaive \/ PairLambda

SpecPair == InitPair /\ [][NextPair]_vars

\* ------------------------------------------------------------- batch harness
\* One reference series of length n >= 2 and a rectangular batch of k series
\* of length n: multiTWED on the batch, then memTWED on each of its entries.
HarnessBatches(l) ==
  UNION {Rectangular(k, l) : k \in {x \in 1..MaxBatch : x * l <= MaxBatchCells}}

InitBatch ==
  /\ engine = "batch" /\ pc = "inputs"
  /\ \E l \in 2..MaxLen : t1 \in SeriesOfLen(l) /\ t2 \in HarnessBatches(l)
  /\ lam \in Lams /\ nu \in Nus
  /\ n = Len(t1) /\ m = Len(t1) /\ numSeries = Len(t2)
  /\ matrix = NoMatrix /\ i = 0 /\ j = 0 /\ mi = <<>>
  /\ result = NoResult /\ warned = FALSE
  /\ cmp = [batch |-> Outcome("none", <<>>), pair |-> <<>>]

BatchMulti ==
  /\ pc = "inputs" /\ engine = "batch"
  /\ LET o == multiTWED_costs(t1, t2, lam, nu)
     IN  cmp' = [cmp EXCEPT !.batch = Outcome(o.status, o.value)]
  /\ pc' = "batch"
  /\ UNCHANGED <<engine, t1, t2, lam, nu, n, m, numSeries, matrix, i, j, mi, result, warned>>

BatchPairwise ==
  /\ pc = "batch" /\ engine = "batch"
  /\ \E f \in [1..numSeries -> UNION {memTWED_costs(t1, t2[p], lam, nu) : p \in 1..numSeries}] :
       /\ \A p \in 1..numSeries : f[p] \in memTWED_costs(t1, t2[p], lam, nu)
       /\ cmp' = [cmp EXCEPT !.pair = f]
  /\ pc' = "pairs"
  /\ UNCHANGED <<engine, t1, t2, lam, nu, n, m, numSeries, matrix, i, j, mi, result, warned>>

NextBatch == BatchMulti \/ BatchPairwise

SpecBatch == InitBatch /\ [][NextBatch]_vars

\* ------------------------------------------------------------- reference
\* The recurrence of Marteau (2009) on the full n x m grid, row 0 and column 0
\* at +infinity and the origin at 0: what the claims call the logical matrix.
RECURSIVE GridFill(_, _, _, _, _, _, _, _, _)
GridFill(g, i_, j_, n_, m_, nu_, lam_, d1, d2) ==
  IF i_ >= n_ THEN g
  ELSE IF j_ >= m_ THEN GridFill(g, i_ + 1, 1, n_, m_, nu_, lam_, d1, d2)
  ELSE GridFill([g EXCEPT ![i_][j_] =
                   min3(deleteA(g[i_ - 1][j_], d1, i_, nu_, lam_),
                        deleteB(g[i_][j_ - 1], d2, j_, nu_, lam_),
                        match(g[i_ - 1][j_ - 1], d1, d2, i_, j_, nu_))],
                i_, j_ + 1, n_, m_, nu_, lam_, d1, d2)

FullGrid(d1, d2, lam_, nu_) ==
  GridFill([r \in 0..(Len(d1) - 1) |-> [c \in 0..(Len(d2) - 1) |->
              IF r = 0 /\ c = 0 THEN Fin(0)
              ELSE IF r = 0 \/ c = 0 THEN Inf
              ELSE Fin(0)]],
           1, 1, Len(d1), Len(d2), nu_, lam_, d1, d2)

\* columns 0..m-1 of buffer row `row` are logical row k
RowIs(row, k) ==
  LET g == FullGrid(t1, t2, lam, nu)
  IN  \A c \in 0..(m - 1) : matrix[row][c] = g[k][c]

\* ------------------------------------------------------------- claims

\* C1: cross-engine equivalence.  For a reference series of length n >= 2 and
\* a rectangular batch of k series of length n, multiTWED returns a vector of
\* length k whose p-th entry is what memTWED returns for (A, batch[p]).
C1_CrossEngine ==
  (engine = "batch" /\ pc = "pairs") =>
     /\ cmp.batch.status = "ok"
     /\ Len(cmp.batch.value) = numSeries
     /\ \A p \in 1..numSeries : cmp.pair[p] = Outcome("ok", cmp.batch.value[p])

C1_Witness ==
  /\ engine = "batch" /\ pc = "pairs"
  /\ numSeries >= 2 /\ n >= 3
  /\ cmp.batch.status = "ok"
  /\ cmp.batch.value[1] # cmp.batch.value[2]
  /\ ~cmp.batch.value[1].inf /\ ~cmp.batch.value[2].inf

\* C2: naive-vs-optimized equivalence as claimed: for all lengths n, m >= 2,
\* equal or not, memTWED(A, B) returns what the full-matrix TWED(A, B) returns.
C2_NaiveEquivalence ==
  (engine = "pair" /\ pc \in {"naive", "compared"} /\ n >= 2 /\ m >= 2) =>
     /\ cmp.ab.status = "ok"
     /\ cmp.naive = cmp.ab

\* C3: symmetry.  For two series of the same length n >= 2 and fixed
\* (lambda, nu), memTWED(A, B) and memTWED(B, A) return the same cost.
C3_Symmetry ==
  (engine = "pair" /\ pc \in {"ba", "naive", "compared"} /\ n = m /\ n >= 2) =>
     /\ cmp.ab.status = "ok"
     /\ cmp.ba = cmp.ab

C3_Witness ==
  /\ engine = "pair" /\ pc = "ba" /\ n = m /\ n >= 3 /\ t1 # t2
  /\ cmp.ab.status = "ok" /\ cmp.ba.status = "ok"
  /\ ~cmp.ab.value.inf /\ cmp.ab.value.v > 0

\* C4 as claimed: identity for every accepted (lambda, nu), negative lambda
\* included: memTWED(A, A) returns exactly 0 for every A of length n >= 2.
C4_IdentityAnyLambda ==
  (engine = "pair" /\ pc # "inputs" /\ t1 = t2 /\ n >= 2) =>
     cmp.ab = Outcome("ok", Fin(0))

\* C4 amended: identity when lambda + nu >= 0 (in particular for every
\* lambda >= 0): memTWED(A, A) returns exactly 0 for every A of length n >= 2.
C4_Identity ==
  (engine = "pair" /\ pc # "inputs" /\ t1 = t2 /\ n >= 2 /\ lam + nu >= 0) =>
     cmp.ab = Outcome("ok", Fin(0))

C4_Witness ==
  /\ engine = "pair" /\ pc = "ab" /\ t1 = t2 /\ n >= 3
  /\ lam < 0 /\ lam + nu >= 0
  /\ At(t1, 0) # At(t1, 1)
  /\ cmp.ab = Outcome("ok", Fin(0))

\* C5: monotonicity in lambda.  For lengths n >= m >= 2, nu >= 0 and
\* lambda <= lambda2, the cost under lambda is at most the cost under lambda2.
C5_MonotoneInLambda ==
  (engine = "pair" /\ pc = "compared" /\ 2 <= m /\ m <= n) =>
     /\ cmp.ab.status = "ok" /\ cmp.ab2.status = "ok"
     /\ lam <= cmp.lam2
     /\ Leq(cmp.ab.value, cmp.ab2.value)

C5_Witness ==
  /\ engine = "pair" /\ pc = "compared" /\ 2 <= m /\ m < n
  /\ lam < 0 /\ cmp.lam2 > 0
  /\ cmp.ab.status = "ok" /\ cmp.ab2.status = "ok"
  /\ Less(cmp.ab.value, cmp.ab2.value)

\* C6: batch shape validation as claimed: multiTWED never allocates a DP
\* buffer, runs a sweep or returns a cost vector for a batch that is not a
\* rectangular 2-D array of series of length len(A).
C6_ShapeValidated ==
  (engine = "multi" /\ matrix # NoMatrix) =>
     /\ Len(Shape(t2)) = 2
     /\ Shape(t2)[2] = n

\* C7: non-strict memTWED with 2 <= n < m as claimed: only a warning at
\* construction, the sweep stays inside the allocated buffer and runs to
\* completion, and the value returned is cell (n-1, m-1) of the full grid.
C7_ShortReference ==
  (engine = "mem" /\ 2 <= n /\ n < m /\ pc \notin {"new", "AssertionError"}) =>
     /\ warned
     /\ pc \notin JitOutOfBounds
     /\ pc = "done" => result = FullGrid(t1, t2, lam, nu)[n - 1][m - 1]

\* C8: parameter validation.  In each of the three engines a negative nu ends
\* the constructor with AssertionError: no buffer is ever allocated and no
\* result ever computed for it, and no later step is reached.
C8_NuValidated ==
  nu < 0 => (pc = "AssertionError" /\ matrix = NoMatrix /\ result = NoResult)

C8_Witness ==
  engine = "twed" /\ nu < 0 /\ pc = "AssertionError" /\ matrix = NoMatrix

\* C9: length-1 edge case as claimed: when either series has length 1,
\* memTWED.calculateCosts ends with a value read from an initialised cell; it
\* neither fails nor reads an unassigned row index.
C9_LengthOne ==
  (engine = "mem" /\ (n = 1 \/ m = 1) /\ pc # "AssertionError") =>
     pc \notin (JitUnbound \cup JitOutOfBounds)

\* C10, the rolling buffer of memTWED for 2 <= m <= n.
C10_Case == engine = "mem" /\ 2 <= m /\ m <= n

\* start of outer iteration i: column 0 of the row about to be written is
\* +infinity and the other row is logical row i-1
C10_IterationStart ==
  (C10_Case /\ pc = "inner" /\ j = 1) =>
     /\ matrix[mi[1]][0] = Inf
     /\ RowIs(PreviousRow(mi[1]), i - 1)

\* end of outer iteration i (before and after its for-else): row i mod 2 is
\* logical row i
C10_IterationEnd ==
  (C10_Case /\ pc \in {"else", "return"}) => RowIs(mi[1], i)

\* the returned cell is cell (n-1, m-1) of the full grid
C10_Returned ==
  (C10_Case /\ pc = "done") => result = FullGrid(t1, t2, lam, nu)[n - 1][m - 1]

\* a step of the inner loop writes cell (i mod 2, j) and no other; the
\* for-else that closes the iteration writes +infinity to cell (0, 0) and no other
C10_WriteStep ==
  /\ (C10_Case /\ pc = "inner") =>
        \A r \in 0..1, c \in 0..(n - 1) :
           (r # mi[1] \/ c # j) => matrix'[r][c] = matrix[r][c]
  /\ (C10_Case /\ pc = "else") => matrix' = [matrix EXCEPT ![0][0] = Inf]

\* C10 as claimed, its write discipline: during iteration i (inner loop and
\* for-else) only row i mod 2 is written, the other row is read-only.
C10_OnlyCurrentRowWritten ==
  [][(C10_Case /\ pc \in {"inner", "else"}) =>
        matrix'[PreviousRow(mi[1])] = matrix[PreviousRow(mi[1])]]_vars

\* C10 amended: the row invariants at the start and the end of every outer
\* iteration and the returned cell, as claimed; the inner loop writes only
\* row i mod 2, and the for-else closing each iteration writes +infinity to
\* cell (0, 0), which for odd i lies in the other row.
C10_RollingBuffer ==
  /\ [](C10_IterationStart /\ C10_IterationEnd /\ C10_Returned)
  /\ [][C10_WriteStep]_vars

C10_Witness ==
  /\ C10_Case /\ pc = "inner" /\ j = 1 /\ i = 2
  /\ ~matrix[1][m - 1].inf /\ matrix[1][m - 1].v > 0
  /\ matrix[0][0] = Inf

====
